---- MODULE Spec2Model ----
(***************************************************************************)
(* Skelly pose editor (FPoseEditor): the controller that keeps the bone    *)
(* selection of the skeleton tree, the 3D viewport and the details panel   *)
(* in step, owns the preview mesh component and the bone proxy, and swaps  *)
(* the preview mesh.  Source: Source/Skelly/Private/SkellyPoseEditor.cpp.  *)
(***************************************************************************)
EXTENDS Integers, Sequences, FiniteSets, TLC

(* ------------------------------ bounds --------------------------------- *)

\* longest selection a user makes in the tree or in the viewport
MaxSel == 2
\* number of SetPreviewSkeletalMesh calls made by the editor's callers
MaxMeshCalls == 1
\* number of bone edits the user makes in the viewport
MaxEdits == 1

(* ------------------------- engine vocabulary --------------------------- *)

NAME_None == "None"
INDEX_NONE == -1
NoMesh == "NoMesh"

\* the reference skeleton of the pose's USkeleton, in skeleton order
SkeletonBones == <<"root", "spine", "hand">>

\* the skeletal meshes of the project: two built on the pose's skeleton (one
\* of them without the hand bone) and one built on another skeleton
Meshes == {"MeshFull", "MeshPartial", "MeshOther"}

\* a mesh's own reference skeleton (RefSkeleton), in the mesh's bone order
MeshBones(mesh) ==
    CASE mesh = "MeshFull" -> <<"root", "hand", "spine">>
      [] mesh = "MeshPartial" -> <<"root", "spine">>
      [] mesh = "MeshOther" -> <<"pelvis">>
      [] OTHER -> <<>>

\* RefSkeleton.GetParentIndex, per mesh bone index (0-based, root has none)
MeshParentIndex(mesh) ==
    CASE mesh = "MeshFull" -> <<INDEX_NONE, 0, 0>>
      [] mesh = "MeshPartial" -> <<INDEX_NONE, 0>>
      [] mesh = "MeshOther" -> <<INDEX_NONE>>
      [] OTHER -> <<>>

\* RefSkeleton.GetRefBonePose(), per mesh bone index
RefBonePose(mesh) ==
    CASE mesh = "MeshFull" -> <<"full_root", "full_hand", "full_spine">>
      [] mesh = "MeshPartial" -> <<"part_root", "part_spine">>
      [] mesh = "MeshOther" -> <<"other_pelvis">>
      [] OTHER -> <<>>

\* every bone name of the project's meshes
AllBones == {"root", "spine", "hand", "pelvis"}

\* USkeleton::IsCompatibleMesh of the pose's skeleton
IsCompatibleMesh(mesh) ==
    \A i \in 1..Len(MeshBones(mesh)) :
        \E j \in 1..Len(SkeletonBones) : SkeletonBones[j] = MeshBones(mesh)[i]

\* bone controllers of the preview instance (FAnimNode_ModifyBone)
Controls == {"ctlA"}
NoControl == "none"

\* FTransform::SetComponents(Rotation.Quaternion(), Translation, Scale)
SetComponents(control) ==
    CASE control = "ctlA" -> "xfA"
      [] OTHER -> "identity"

\* what a read past the reference pose array yields when it does not trap
Garbage == "garbage"

\* outcomes of undefined behaviour: the build traps, or carries on
UBOutcomes == {"trap", "continue"}

\* USkinnedMeshComponent::GetBoneIndex
GetBoneIndex(mesh, name) ==
    IF name # NAME_None /\ mesh # NoMesh
       /\ \E i \in 1..Len(MeshBones(mesh)) : MeshBones(mesh)[i] = name
    THEN (CHOOSE i \in 1..Len(MeshBones(mesh)) : MeshBones(mesh)[i] = name) - 1
    ELSE INDEX_NONE

\* USkinnedMeshComponent::GetBoneName
GetBoneName(mesh, boneIndex) ==
    IF mesh # NoMesh /\ boneIndex >= 0 /\ boneIndex < Len(MeshBones(mesh))
    THEN MeshBones(mesh)[boneIndex + 1]
    ELSE NAME_None

\* USkinnedMeshComponent::GetParentBone
GetParentBone(mesh, name) ==
    LET boneIndex == GetBoneIndex(mesh, name) IN
    IF boneIndex # INDEX_NONE /\ boneIndex > 0
    THEN GetBoneName(mesh, MeshParentIndex(mesh)[boneIndex + 1])
    ELSE NAME_None

(* ------------------------------- state --------------------------------- *)

VARIABLES
    editor,   \* FPoseEditor: lifecycle and its pointers to panels and objects
    comp,     \* UDebugSkelMeshComponent: the preview component's fields
    bone,     \* USkellyBone: the proxy the details view binds to
    tree,     \* SSkeletonTree: populated bones and the selected names
    client,   \* FPoseEditorViewportClient: the component it draws
    details,  \* IDetailsView: the object last passed to SetObject
    host,     \* editor framework: undo registration, root set, preview scene
    hist      \* history: last operations, handler runs, call counts

vars == <<editor, comp, bone, tree, client, details, host, hist>>

World ==
    [editor |-> editor, comp |-> comp, bone |-> bone, tree |-> tree,
     client |-> client, details |-> details, host |-> host, hist |-> hist]

SetWorld(w) ==
    /\ editor' = w.editor
    /\ comp' = w.comp
    /\ bone' = w.bone
    /\ tree' = w.tree
    /\ client' = w.client
    /\ details' = w.details
    /\ host' = w.host
    /\ hist' = w.hist

NoOp == [op |-> "none", names |-> <<>>, indices |-> <<>>, mesh |-> NoMesh]

\* the state right after FPoseEditor::FPoseEditor()
Init ==
    /\ editor = [phase |-> "constructed", fault |-> "none",
                 currentPose |-> FALSE, hasSkeleton |-> FALSE,
                 skeletonTree |-> FALSE, viewport |-> FALSE,
                 viewportClient |-> FALSE, detailsView |-> FALSE,
                 previewComponent |-> FALSE, detailsViewBone |-> "uninit"]
    /\ comp = [SkeletalMesh |-> NoMesh, BonesOfInterest |-> <<>>,
               PreviewInstance |-> FALSE,
               modified |-> [b \in AllBones |-> NoControl]]
    /\ bone = [BoneName |-> NAME_None, ParentBoneName |-> NAME_None,
               BoneTransform |-> "identity"]
    /\ tree = [bones |-> <<>>, selection |-> <<>>]
    /\ client = [component |-> FALSE]
    /\ details = [object |-> "null"]
    /\ host = [undo |-> FALSE, inScene |-> FALSE, sceneAdds |-> 0,
               clientSets |-> 0, reinitAnims |-> 0,
               compCreated |-> 0, compRooted |-> 0, compUnrooted |-> 0,
               boneCreated |-> 0, boneRooted |-> 0, boneUnrooted |-> 0,
               wildUnroot |-> FALSE]
    /\ hist = [lastOp |-> NoOp, echo |-> FALSE, runs |-> 0,
               raised |-> "none", meshCalls |-> 0, edits |-> 0]

(* ----------------------------- operations ------------------------------ *)

\* a fault ends the process: the handler under way does nothing further
Fault(w, kind) == [w EXCEPT !.editor.fault = kind]

\* a mesh test that treats every mesh as different from the current one
IsNewMesh_Always(w, mesh) == TRUE

\* inPreviewSkeletalMesh != _skeletalMeshPreviewComponent->SkeletalMesh
IsNewMesh(w, mesh) == mesh # w.comp.SkeletalMesh

\* the mesh swap of SetPreviewSkeletalMesh
SwapPreviewMesh(w, mesh) ==
    [w EXCEPT
        \* SetSkeletalMesh, which initialises the animation instance
        !.comp.SkeletalMesh = mesh,
        !.comp.PreviewInstance = TRUE,
        \* _previewScene.AddComponent
        !.host.inScene = TRUE,
        !.host.sceneAdds = @ + 1,
        \* viewportClient->SetSkeletalMeshPreviewComponent, if pinned
        !.client.component = @ \/ w.editor.viewportClient,
        !.host.clientSets = IF w.editor.viewportClient THEN @ + 1 ELSE @]

\* the else branch of SetPreviewSkeletalMesh: InitAnim(true) on the same mesh
ReinitAnim(w) == [w EXCEPT !.host.reinitAnims = @ + 1]

\* a SetPreviewSkeletalMesh that does not test the mesh's compatibility
SetPreviewSkeletalMesh_Unchecked(w, mesh) ==
    IF ~w.editor.currentPose \/ ~w.editor.hasSkeleton \/ ~w.editor.previewComponent
    THEN Fault(w, "null_deref")
    ELSE IF IsNewMesh(w, mesh) THEN SwapPreviewMesh(w, mesh) ELSE ReinitAnim(w)

\* FPoseEditor::SetPreviewSkeletalMesh
SetPreviewSkeletalMesh(w, mesh) ==
    IF ~w.editor.currentPose \/ ~w.editor.hasSkeleton \/ ~w.editor.previewComponent
    THEN Fault(w, "null_deref")
    ELSE IF IsCompatibleMesh(mesh)
    THEN IF IsNewMesh(w, mesh) THEN SwapPreviewMesh(w, mesh) ELSE ReinitAnim(w)
    ELSE w

\* a selection push that also executes the viewport client's OnSelectionChanged
SetSelectedBoneNames_Notifying(w, inBoneNames) ==
    IF w.editor.previewComponent
    THEN [w EXCEPT
            !.comp.BonesOfInterest =
                [i \in 1..Len(inBoneNames) |->
                    GetBoneIndex(w.comp.SkeletalMesh, inBoneNames[i])],
            !.hist.raised = "viewport"]
    ELSE w

\* FPoseEditor::SetSelectedBoneNames
SetSelectedBoneNames(w, inBoneNames) ==
    IF w.editor.previewComponent
    THEN [w EXCEPT
            !.comp.BonesOfInterest =
                [i \in 1..Len(inBoneNames) |->
                    GetBoneIndex(w.comp.SkeletalMesh, inBoneNames[i])]]
    ELSE w

\* a read-back that drops the names
GetSelectedBoneNames_Empty(w) == <<>>

\* a read-back that lists the names last index first
GetSelectedBoneNames_Reversed(w) ==
    IF w.editor.previewComponent
    THEN [i \in 1..Len(w.comp.BonesOfInterest) |->
            GetBoneName(w.comp.SkeletalMesh,
                w.comp.BonesOfInterest[Len(w.comp.BonesOfInterest) + 1 - i])]
    ELSE <<>>

\* FPoseEditor::GetSelectedBoneNames
GetSelectedBoneNames(w) ==
    IF w.editor.previewComponent
    THEN [i \in 1..Len(w.comp.BonesOfInterest) |->
            GetBoneName(w.comp.SkeletalMesh, w.comp.BonesOfInterest[i])]
    ELSE <<>>

\* UAnimPreviewInstance::FindModifiedBone
FindModifiedBone(w, boneName) ==
    IF boneName \in AllBones THEN w.comp.modified[boneName] ELSE NoControl

\* a selection test that takes any non-empty selection for a single bone
bSingleBoneSelected_NonEmpty(w) ==
    w.editor.previewComponent /\ Len(w.comp.BonesOfInterest) >= 1

\* bSingleBoneSelected of GetDetailsViewSourceObject
bSingleBoneSelected(w) ==
    w.editor.previewComponent /\ Len(w.comp.BonesOfInterest) = 1

\* FPoseEditor::GetDetailsViewSourceObject: the world after the call and the
\* object returned; ub is the outcome of a read outside the reference pose
GetDetailsViewSourceObject(w, ub) ==
    IF ~bSingleBoneSelected(w)
    THEN [w |-> w, ret |-> "null"]
    ELSE
      LET boneIndex == w.comp.BonesOfInterest[1]
          mesh == w.comp.SkeletalMesh
          boneName == GetBoneName(mesh, boneIndex)
          w1 == [w EXCEPT !.bone.BoneName = boneName,
                          !.bone.ParentBoneName = GetParentBone(mesh, boneName)]
          skeletalControl == FindModifiedBone(w, boneName)
      IN
      IF w.editor.detailsViewBone # "object"
      THEN [w |-> Fault(w, "null_deref"), ret |-> "null"]
      ELSE IF ~w.comp.PreviewInstance
      THEN [w |-> Fault(w1, "null_deref"), ret |-> "null"]
      ELSE IF skeletalControl # NoControl
      THEN [w |-> [w1 EXCEPT !.bone.BoneTransform = SetComponents(skeletalControl)],
            ret |-> "bone"]
      ELSE IF mesh = NoMesh
      THEN [w |-> Fault(w1, "null_deref"), ret |-> "null"]
      ELSE IF boneIndex < 0 \/ boneIndex >= Len(RefBonePose(mesh))
      THEN IF ub = "trap"
           THEN [w |-> Fault(w1, "out_of_range"), ret |-> "null"]
           ELSE [w |-> [w1 EXCEPT !.bone.BoneTransform = Garbage], ret |-> "bone"]
      ELSE [w |-> [w1 EXCEPT !.bone.BoneTransform = RefBonePose(mesh)[boneIndex + 1]],
            ret |-> "bone"]

\* _detailsView->SetObject(GetDetailsViewSourceObject(), bForceRefresh)
RefreshDetails(w, ub) ==
    IF w.editor.detailsView
    THEN LET r == GetDetailsViewSourceObject(w, ub) IN
         IF r.w.editor.fault # "none"
         THEN r.w
         ELSE [r.w EXCEPT !.details.object = r.ret]
    ELSE w

\* SSkeletonTree::GetSelectedBoneNames
SSkeletonTree_GetSelectedBoneNames(w) == w.tree.selection

\* SSkeletonTree::SetSelectedBoneNames
SSkeletonTree_SetSelectedBoneNames(w, names) ==
    [w EXCEPT !.tree.selection = names]

RECURSIVE SkeletonTree_OnSelectionChanged(_, _)
RECURSIVE Viewport_OnSelectionChanged(_, _)

\* FPoseEditor::SkeletonTree_OnSelectionChanged
SkeletonTree_OnSelectionChanged(w, ub) ==
    LET w0 == [w EXCEPT !.hist.runs = @ + 1] IN
    IF ~w.editor.skeletonTree
    THEN Fault(w0, "null_deref")
    ELSE
      LET boneNames == SSkeletonTree_GetSelectedBoneNames(w0)
          w1 == SetSelectedBoneNames(w0, boneNames)
          \* a delegate executed by the push runs its handler before returning
          w2 == IF w1.hist.raised = "viewport"
                THEN Viewport_OnSelectionChanged(
                         [w1 EXCEPT !.hist.raised = "none"], ub)
                ELSE w1
      IN
      IF w2.editor.fault # "none" THEN w2 ELSE RefreshDetails(w2, ub)

\* FPoseEditor::Viewport_OnSelectionChanged
Viewport_OnSelectionChanged(w, ub) ==
    LET w0 == [w EXCEPT !.hist.runs = @ + 1]
        boneNames == GetSelectedBoneNames(w0)
        w1 == IF w0.editor.skeletonTree
              THEN SSkeletonTree_SetSelectedBoneNames(w0, boneNames)
              ELSE w0
        w2 == IF w1.hist.raised = "tree"
              THEN SkeletonTree_OnSelectionChanged(
                       [w1 EXCEPT !.hist.raised = "none"], ub)
              ELSE w1
    IN
    IF w2.editor.fault # "none" THEN w2 ELSE RefreshDetails(w2, ub)

\* FPoseEditor::OnSpawnSkeletonTab: SAssignNew(_skeletonTree, SSkeletonTree)
OnSpawnSkeletonTab(w) ==
    [w EXCEPT !.editor.skeletonTree = TRUE,
              !.tree = [bones |-> <<>>, selection |-> <<>>]]

\* FPoseEditor::InitPoseEditor
InitPoseEditor(w, hasSkeleton, previewMesh, tabOpen) ==
    LET \* RegisterForUndo, the pose, the viewport and its client, the details view
        w1 == [w EXCEPT !.host.undo = TRUE,
                        !.editor.phase = "open",
                        !.editor.currentPose = TRUE,
                        !.editor.hasSkeleton = hasSkeleton,
                        !.editor.viewport = TRUE,
                        !.editor.viewportClient = TRUE,
                        !.editor.detailsView = TRUE]
        \* InitAssetEditor restores the layout and spawns the tabs open in it
        w2 == IF tabOpen THEN OnSpawnSkeletonTab(w1) ELSE w1
        \* NewObject + AddToRoot for the preview component and the bone proxy
        w3 == [w2 EXCEPT !.editor.previewComponent = TRUE,
                         !.host.compCreated = @ + 1,
                         !.host.compRooted = @ + 1,
                         !.editor.detailsViewBone = "object",
                         !.host.boneCreated = @ + 1,
                         !.host.boneRooted = @ + 1]
        w4 == IF hasSkeleton /\ w3.editor.skeletonTree
              THEN [w3 EXCEPT !.tree.bones = SkeletonBones]
              ELSE w3
    IN
    \* the closing EnablePreview(true, nullptr, nullptr) previews no asset
    IF hasSkeleton /\ previewMesh # NoMesh
    THEN SetPreviewSkeletalMesh(w4, previewMesh)
    ELSE w4

\* what the uninitialised _detailsViewBone may hold when the destructor reads it
UninitOutcomes == {"null", "garbage"}

\* FPoseEditor::~FPoseEditor
Destructor(w, uninit) ==
    LET w1 == IF w.editor.detailsViewBone = "object"
              THEN [w EXCEPT !.host.boneUnrooted = @ + 1]
              ELSE IF w.editor.detailsViewBone = "uninit" /\ uninit = "garbage"
              THEN [w EXCEPT !.host.wildUnroot = TRUE]
              ELSE w
        w2 == IF w1.editor.previewComponent
              THEN [w1 EXCEPT !.host.compUnrooted = @ + 1]
              ELSE w1
    IN [w2 EXCEPT !.host.undo = FALSE, !.editor.phase = "destroyed"]

\* FPoseEditorViewportClient: a pick stores the bone indices in the preview
\* component and executes OnSelectionChanged
ViewportClient_Select(w, indices, ub) ==
    Viewport_OnSelectionChanged(
        [w EXCEPT !.comp.BonesOfInterest = indices], ub)

\* FPoseEditorViewportClient: a bone edit adds or updates a bone controller
ViewportClient_ModifyBone(w, boneName, control) ==
    [w EXCEPT !.comp.modified[boneName] = control]

(* ------------------------------- actions ------------------------------- *)

Alive == editor.phase = "open" /\ editor.fault = "none"

\* sequences of distinct elements of S, no longer than MaxSel
RECURSIVE DistinctSeqs(_, _)
DistinctSeqs(S, n) ==
    IF n = 0 THEN {<<>>}
    ELSE LET shorter == DistinctSeqs(S, n - 1) IN
         shorter \cup {Append(q, x) : q \in shorter, x \in S}

Range(q) == {q[i] : i \in 1..Len(q)}

Selections(S) == {q \in DistinctSeqs(S, MaxSel) : Cardinality(Range(q)) = Len(q)}

\* history: the operation just done, and whether it is a viewport pick of the
\* one bone that the tree selection right before it selected
Record(w, op, names, indices, mesh) ==
    [w EXCEPT !.hist.echo = /\ op = "viewport"
                            /\ hist.lastOp.op = "tree"
                            /\ Len(names) = 1
                            /\ hist.lastOp.names = names,
              !.hist.lastOp = [op |-> op, names |-> names,
                               indices |-> indices, mesh |-> mesh]]

\* the asset system opens the editor on a pose
DoInitPoseEditor ==
    /\ editor.phase = "constructed"
    /\ \E hasSkeleton \in BOOLEAN, tabOpen \in BOOLEAN,
          previewMesh \in {NoMesh} \cup {m \in Meshes : IsCompatibleMesh(m)} :
          SetWorld(Record(InitPoseEditor(World, hasSkeleton, previewMesh, tabOpen),
                          "init", <<>>, <<>>, previewMesh))

\* the user opens the skeleton tab after the editor is up
DoSpawnSkeletonTab ==
    /\ Alive
    /\ ~editor.skeletonTree
    /\ SetWorld(Record(OnSpawnSkeletonTab(World), "spawn", <<>>, <<>>, NoMesh))

\* the user changes the selection in the skeleton tree
DoTreeSelect ==
    /\ Alive
    /\ editor.skeletonTree
    /\ \E names \in Selections(Range(tree.bones)), ub \in UBOutcomes :
          /\ names # tree.selection
          /\ SetWorld(Record(
                 SkeletonTree_OnSelectionChanged(
                     [World EXCEPT !.tree.selection = names, !.hist.runs = 0], ub),
                 "tree", names, <<>>, NoMesh))

\* the user picks bones in the viewport
DoViewportSelect ==
    /\ Alive
    /\ client.component
    /\ \E indices \in Selections(0..(Len(MeshBones(comp.SkeletalMesh)) - 1)),
          ub \in UBOutcomes :
          SetWorld(Record(
              ViewportClient_Select([World EXCEPT !.hist.runs = 0], indices, ub),
              "viewport",
              [i \in 1..Len(indices) |-> GetBoneName(comp.SkeletalMesh, indices[i])],
              indices, NoMesh))

\* the user moves a bone in the viewport
DoModifyBone ==
    /\ Alive
    /\ client.component
    /\ hist.edits < MaxEdits
    /\ \E b \in Range(MeshBones(comp.SkeletalMesh)), c \in Controls :
          SetWorld(Record(
              ViewportClient_ModifyBone([World EXCEPT !.hist.edits = @ + 1], b, c),
              "modify", <<b>>, <<>>, NoMesh))

\* a caller asks for another preview mesh; as in InitPoseEditor, the call is
\* made only for a pose that has a skeleton
DoSetPreviewSkeletalMesh ==
    /\ Alive
    /\ editor.hasSkeleton
    /\ hist.meshCalls < MaxMeshCalls
    /\ \E mesh \in Meshes :
          SetWorld(Record(
              SetPreviewSkeletalMesh([World EXCEPT !.hist.meshCalls = @ + 1], mesh),
              "setmesh", <<>>, <<>>, mesh))

\* the editor is closed, or dropped before it was initialised
DoDestroy ==
    /\ editor.phase \in {"constructed", "open"}
    /\ editor.fault = "none"
    /\ \E uninit \in UninitOutcomes :
          SetWorld(Record(Destructor(World, uninit), "destroy", <<>>, <<>>, NoMesh))

Next ==
    \/ DoInitPoseEditor
    \/ DoSpawnSkeletonTab
    \/ DoTreeSelect
    \/ DoViewportSelect
    \/ DoModifyBone
    \/ DoSetPreviewSkeletalMesh
    \/ DoDestroy

Spec == Init /\ [][Next]_vars

(* ------------------------------- claims -------------------------------- *)

\* the bone is the selection of the tree, of the viewport and of the details panel
SelectedEverywhere(b) ==
    /\ tree.selection = <<b>>
    /\ GetSelectedBoneNames(World) = <<b>>
    /\ details.object = "bone"
    /\ bone.BoneName = b

\* C1: after the tree reports a selection of exactly one bone and the handler
\* has completed, the viewport's selection read back as names is that same
\* singleton and the details view is bound to the proxy named after the bone,
\* for every bone the tree shows.
C1_TreeSingleSelectionReachesViewportAndDetails ==
    (Alive /\ hist.lastOp.op = "tree" /\ Len(hist.lastOp.names) = 1)
        => /\ GetSelectedBoneNames(World) = hist.lastOp.names
           /\ details.object = "bone"
           /\ bone.BoneName = hist.lastOp.names[1]

\* C2: the details view has a target exactly when the selection holds one
\* element: with no element or more than one the object last given to
\* SetObject is null, and after a completed handler with one element it is
\* the bone proxy.
C2_DetailsTargetIffSingleSelection ==
    /\ Len(comp.BonesOfInterest) # 1 => details.object = "null"
    /\ (editor.fault = "none" /\ Len(comp.BonesOfInterest) = 1)
           => details.object = "bone"

\* C2 witness: a two-bone tree selection has unbound a proxy bound earlier
C2_Witness ==
    /\ Alive
    /\ hist.lastOp.op = "tree"
    /\ Len(comp.BonesOfInterest) = 2
    /\ details.object = "null"
    /\ bone.BoneName # NAME_None

\* C3: a SetPreviewSkeletalMesh call with a mesh that is not compatible with
\* the pose's skeleton changes nothing: the preview mesh, the preview scene,
\* the viewport client, the selection, the details target and the proxy are
\* as before, and no fault is raised.
C3_IncompatibleMeshChangesNothing ==
    [][(/\ hist'.lastOp.op = "setmesh"
        /\ hist'.meshCalls = hist.meshCalls + 1
        /\ ~IsCompatibleMesh(hist'.lastOp.mesh))
          => /\ editor' = editor
             /\ comp' = comp
             /\ host' = host
             /\ client' = client
             /\ tree' = tree
             /\ details' = details
             /\ bone' = bone]_vars

\* C3 witness: an incompatible mesh was offered while a mesh was previewed and
\* a bone was bound to the details view
C3_Witness ==
    /\ Alive
    /\ hist.lastOp.op = "setmesh"
    /\ ~IsCompatibleMesh(hist.lastOp.mesh)
    /\ comp.SkeletalMesh # NoMesh
    /\ details.object = "bone"

\* C4 as stated: every SetPreviewSkeletalMesh call with a compatible mesh,
\* the current preview mesh included, makes it the preview mesh, adds the
\* component to the preview scene again and hands the component to the
\* viewport client again.
C4_CompatibleMeshAlwaysSwaps ==
    [][(/\ hist'.lastOp.op = "setmesh"
        /\ hist'.meshCalls = hist.meshCalls + 1
        /\ IsCompatibleMesh(hist'.lastOp.mesh))
          => /\ comp'.SkeletalMesh = hist'.lastOp.mesh
             /\ host'.inScene
             /\ host'.sceneAdds = host.sceneAdds + 1
             /\ client'.component
             /\ host'.clientSets = host.clientSets + 1]_vars

\* C4 amended: a SetPreviewSkeletalMesh call with a compatible mesh other
\* than the current preview mesh makes it the preview mesh, adds the
\* component to the preview scene and hands it to the viewport client; a call
\* with the current preview mesh only re-initialises the animation and leaves
\* the mesh, the scene and the viewport client as they were.
C4_CompatibleMeshSwapsUnlessCurrent ==
    [][(/\ hist'.lastOp.op = "setmesh"
        /\ hist'.meshCalls = hist.meshCalls + 1
        /\ IsCompatibleMesh(hist'.lastOp.mesh))
          => IF hist'.lastOp.mesh # comp.SkeletalMesh
             THEN /\ comp'.SkeletalMesh = hist'.lastOp.mesh
                  /\ host'.inScene
                  /\ host'.sceneAdds = host.sceneAdds + 1
                  /\ client'.component
                  /\ host'.clientSets = host.clientSets + 1
                  /\ host'.reinitAnims = host.reinitAnims
             ELSE /\ comp' = comp
                  /\ client' = client
                  /\ host'.inScene = host.inScene
                  /\ host'.sceneAdds = host.sceneAdds
                  /\ host'.clientSets = host.clientSets
                  /\ host'.reinitAnims = host.reinitAnims + 1]_vars

\* C4 witness: the current preview mesh was set again
C4_Witness ==
    /\ Alive
    /\ hist.lastOp.op = "setmesh"
    /\ hist.lastOp.mesh = comp.SkeletalMesh
    /\ host.reinitAnims = 1
    /\ host.sceneAdds = 1

\* C5: a user selection event runs exactly one selection handler of the
\* controller: pushing the selection into the other panel executes no
\* selection-changed delegate, and no event is left pending.
C5_OneHandlerRunPerSelectionEvent ==
    hist.lastOp.op \in {"tree", "viewport"}
        => hist.runs = 1 /\ hist.raised = "none"

\* C5 witness: a viewport pick was pushed into a populated skeleton tree
C5_Witness ==
    /\ Alive
    /\ hist.lastOp.op = "viewport"
    /\ editor.skeletonTree
    /\ Len(tree.selection) = 1
    /\ hist.runs = 1

\* C6: selecting a bone in the tree and then the same bone in the viewport
\* leaves the tree selection, the viewport selection, the details target and
\* the proxy as the tree selection left them, and that state is the one a
\* single selection of the bone through either panel reaches.
C6_TreeThenViewportConverges ==
    /\ [](hist.echo => SelectedEverywhere(hist.lastOp.names[1]))
    /\ []((/\ Alive
           /\ editor.skeletonTree
           /\ hist.lastOp.op = "viewport"
           /\ Len(hist.lastOp.names) = 1)
             => SelectedEverywhere(hist.lastOp.names[1]))
    /\ []((/\ Alive
           /\ hist.lastOp.op = "tree"
           /\ Len(hist.lastOp.names) = 1
           /\ hist.lastOp.names[1] \in Range(MeshBones(comp.SkeletalMesh)))
             => SelectedEverywhere(hist.lastOp.names[1]))
    /\ [][hist'.echo => /\ tree' = tree
                        /\ comp' = comp
                        /\ details' = details
                        /\ bone' = bone
                        /\ client' = client]_vars

\* C6 witness: the bone selected in the tree was picked in the viewport next
C6_Witness ==
    /\ Alive
    /\ hist.echo
    /\ details.object = "bone"

\* C7: no operation of the controller dereferences an absent panel, component,
\* preview instance, skeletal mesh or proxy.
C7_NoAbsentObjectDereferenced ==
    editor.fault # "null_deref"

\* C8: with exactly one bone selected, GetDetailsViewSourceObject returns the
\* proxy with BoneName the selected bone, ParentBoneName its parent and
\* BoneTransform its transform override when it has one and else the
\* reference pose at its index; with another selection size it returns nothing.
C8_SingleSelectionFillsProxy ==
    (Alive /\ hist.lastOp.op \in {"tree", "viewport"})
        => IF Len(hist.lastOp.names) = 1
           THEN LET b == hist.lastOp.names[1]
                    mesh == comp.SkeletalMesh
                    boneIndex == GetBoneIndex(mesh, b)
                IN /\ details.object = "bone"
                   /\ bone.BoneName = b
                   /\ bone.ParentBoneName = GetParentBone(mesh, b)
                   /\ boneIndex # INDEX_NONE
                   /\ bone.BoneTransform =
                        IF comp.modified[b] # NoControl
                        THEN SetComponents(comp.modified[b])
                        ELSE RefBonePose(mesh)[boneIndex + 1]
           ELSE details.object = "null"

\* C9: from the end of InitPoseEditor to the destructor the preview component
\* and the bone proxy exist, each created once and rooted; the destructor
\* releases each object it rooted once and nothing else, and removes the undo
\* registration, whether or not InitPoseEditor ran.
C9_OwnedForTheControllersLifetime ==
    /\ editor.phase = "open"
          => /\ host.compCreated = 1 /\ host.boneCreated = 1
             /\ host.compRooted = 1 /\ host.boneRooted = 1
             /\ host.compUnrooted = 0 /\ host.boneUnrooted = 0
             /\ host.undo
    /\ editor.phase = "destroyed"
          => /\ host.compUnrooted = host.compRooted
             /\ host.boneUnrooted = host.boneRooted
             /\ ~host.wildUnroot
             /\ ~host.undo

\* C10: after a viewport selection event with the skeleton tree present, the
\* tree's selection lists the name of each selected bone index, one per index
\* in the same order, the viewport's selection is as the pick left it, and the
\* details view is bound to the proxy of the bone when one bone is selected
\* and to nothing otherwise.
C10_ViewportSelectionReachesTreeAndDetails ==
    (Alive /\ hist.lastOp.op = "viewport" /\ editor.skeletonTree)
        => /\ comp.BonesOfInterest = hist.lastOp.indices
           /\ Len(tree.selection) = Len(hist.lastOp.indices)
           /\ \A i \in 1..Len(hist.lastOp.indices) :
                 tree.selection[i] = MeshBones(comp.SkeletalMesh)[hist.lastOp.indices[i] + 1]
           /\ IF Len(hist.lastOp.indices) = 1
              THEN /\ details.object = "bone"
                   /\ bone.BoneName = tree.selection[1]
                   /\ bone.ParentBoneName = GetParentBone(comp.SkeletalMesh, tree.selection[1])
                   /\ bone.BoneTransform =
                        IF comp.modified[tree.selection[1]] # NoControl
                        THEN SetComponents(comp.modified[tree.selection[1]])
                        ELSE RefBonePose(comp.SkeletalMesh)[hist.lastOp.indices[1] + 1]
              ELSE details.object = "null"

\* C10 witness: two bones picked in the viewport, in an order that is not the
\* order of their indices, reached the tree
C10_Witness ==
    /\ Alive
    /\ hist.lastOp.op = "viewport"
    /\ editor.skeletonTree
    /\ hist.lastOp.indices = <<2, 1>>
    /\ tree.selection = <<"spine", "hand">>

====
